---------------------------- MODULE Spec2Model ----------------------------
(***************************************************************************)
(* A model of the SilverBullet web client's Editor (web/editor.tsx) and of *)
(* the plug runtime it drives: the debounced page save, the reloading of   *)
(* plugs, the command key bindings of the editor state, the running of     *)
(* commands and the dispatch of events to plug functions.                  *)
(*                                                                         *)
(* src/unnamed/part_001 is the Editor class, src/unnamed/part_000 is the   *)
(* manifest of the core plug.  System, EventHook, CommandHook and the view *)
(* state reducer are imported by the Editor but are not among the source   *)
(* files; they are modelled from the design document and marked so.        *)
(***************************************************************************)
EXTENDS Integers, Sequences, FiniteSets, TLC

VARIABLES
  \* ---- the page save (Editor.save and its timers)
  saveTimeout,      \* Editor.saveTimeout: id of the last timer stored, 0 = undefined
  timers,           \* the armed timers of the host (setTimeout not yet fired/cleared)
  nextTimer,        \* the id the next setTimeout returns
  currentPage,      \* viewState.currentPage, NoPage = undefined
  unsavedChanges,   \* viewState.unsavedChanges
  forcedROMode,     \* viewState.forcedROMode
  writes,           \* space.writePage calls in flight
  burstNo,          \* history: number of save timers that have fired so far
  writeLog,         \* history: every space.writePage started, with its burst
  errorNotes,       \* history: number of error notifications flashed by save
  promises,         \* the promise of each save() call, by the id of its timer
  \* ---- the plugs (Editor.reloadPlugs, System, the hooks, the editor state)
  rpc,              \* where the running reloadPlugs() is
  gen,              \* number of reloadPlugs() runs started (the load generation)
  unloadedGen,      \* number of runs whose system.unloadAll() has completed
  tasks,            \* the per-plug async functions of Promise.all still known
  loadedPlugs,      \* System: the loaded plugs, in load order
  editorCommands,   \* CommandHook.editorCommands, in the order of values()
  subscriptions,    \* EventHook: the subscriptions, in registration order
  slashCommands,    \* SlashCommandHook: the slash commands of the loaded plugs
  commands,         \* viewState.commands
  keyBindings,      \* commandKeyBindings of the editor state in the EditorView
  pendingRuns,      \* command run functions called and not yet settled
  runs,             \* number of command run functions called so far
  runOutcome,       \* history: how the last reloadPlugs() run ended
  rebuiltGen,       \* history: last run in which rebuildEditorState() was called
  dispatchedGen,    \* history: last run that dispatched 'plugs:loaded'
  prevKeys,         \* history: each plug's command key before the last unloadAll
  staleRun,         \* history: a run function of an unloaded plug was called
  lastByName,       \* history: the last runCommandByName call
  lastSettle,       \* history: how the last command run settled
  \* ---- the event dispatch (Editor.dispatchAppEvent, Editor.completer)
  dPhase,           \* "idle", "dispatching", "resolved" (the caller not resumed)
  dCaller,          \* who awaits the dispatch: "completer" or "app"
  dEvent,           \* the event name of the last dispatch, "none" before any
  dPlan,            \* what each subscriber does when invoked, by position
  dNext,            \* position of the subscriber invoked next
  dInvoked,         \* history: the subscribers invoked, in order
  dResults,         \* the results collected so far
  dLogged,          \* history: the subscribers whose failure was logged
  dReturned,        \* the value the dispatch promise resolved with
  completerRet,     \* what the last completer() call returned
  \* ---- invocations in the Editor's System
  invocations,      \* history: the invocations made, in order, with their fate
  \* ---- page namespace routing
  routed,           \* the last readFile / getFileMeta request and who served it
  \* ---- loading a page (Editor.loadPage)
  load,             \* the running or last loadPage call and where it is
  openPages,        \* Editor.openPages: the pages with a recorded PageState
  watched,          \* the pages watched in the space (watchPage / unwatchPage)
  collab,           \* whether Editor.collabState is defined (a session is active)
  docPage,          \* the page whose document the EditorView holds, NoPage = ""
  loadedText,       \* the text the EditorView was last given by loadPage
  docMeta,          \* the meta of the last 'page-loaded' action
  events,           \* history: what the running loadPage call has emitted, in order
  loads,            \* number of loadPage calls so far
  cursor,           \* offset of the main selection of the EditorView
  pageStates,       \* Editor.openPages: the selection recorded for each page in it
  sessions,         \* the collab sessions started and not stopped
  collabSession,    \* the session Editor.collabState refers to, 0 = undefined
  \* ---- the context of a key press (Editor.getContext)
  selEmpty,         \* whether the main selection of the editor state is empty
  nodeAt,           \* name of the syntax node at the cursor, "" for a node without
  keyResult         \* history: the handlers the last key press called, in order

saveVars == <<saveTimeout, timers, nextTimer, unsavedChanges,
              forcedROMode, writes, burstNo, writeLog, errorNotes,
              promises>>

plugVars == <<rpc, gen, unloadedGen, tasks, loadedPlugs, editorCommands,
              subscriptions, slashCommands, commands, keyBindings, pendingRuns, runs,
              runOutcome, rebuiltGen, dispatchedGen, prevKeys, staleRun,
              lastByName, lastSettle>>

dispVars == <<dPhase, dCaller, dEvent, dPlan, dNext, dInvoked, dResults,
              dLogged, dReturned, completerRet>>

\* ---- the variables of the invocations of plug functions and syscalls
envVars == <<invocations>>

\* ---- the variable of the page namespace routing
nsVars == <<routed>>

\* ---- the variables of loadPage
pageVars == <<load, openPages, watched, collab, docPage, loadedText, docMeta,
              events, loads, cursor, pageStates, sessions, collabSession>>

\* ---- the variables of the context of a key press
ctxVars == <<selEmpty, nodeAt, keyResult>>

restVars == <<envVars, nsVars, pageVars, ctxVars>>

vars == <<currentPage, saveVars, plugVars, dispVars, restVars>>

-----------------------------------------------------------------------------
(* Bounds of the model *)

\* number of setTimeout calls made for saving in one behaviour
MaxTimers == 5

(* Program constants *)

\* const saveInterval = 1000
saveInterval == 1000

\* setTimeout(this.save.bind(this), 10000)
RetryDelay == 10000

\* the granule by which the model lets time pass
TickMs == saveInterval \div 2

NoPage == ""
Pages == {"a"}

Min(a, b) == IF a < b THEN a ELSE b

\* number of reloadPlugs() runs in one behaviour
MaxReloads == 2

\* number of command run functions called in one behaviour
MaxRuns == 2

\* number of keys pressed in one behaviour while plugs are reloaded
MaxKeyPresses == 1

\* number of invocations of plug functions and syscalls in one behaviour
MaxInvocations == 2

\* length of the page names that are routed
MaxNameLen == 4

\* number of loadPage calls in one behaviour
MaxLoads == 2

\* space.listPlugs(): the plugs of the space
PlugList == <<"p1", "p2">>
Plugs == {PlugList[i] : i \in 1..Len(PlugList)}

\* command.key of a manifest; NoKey: the command declares no key
NoKey == "nokey"
Keys == {"Ctrl-1", "Ctrl-2"}

\* a plug's manifest as far as the model follows it: one function that is a
\* command (command.key, command.priority) and subscribes to 'plugs:loaded'
Manifests ==
  [key : Keys, priority : {1, 5}] \cup {[key |-> NoKey, priority |-> 1]}

\* command.name of the command of a plug
CmdName(p) == "cmd-" \o p
CmdNames == {CmdName(p) : p \in Plugs}

NoCall == [name |-> "", result |-> "none", ran |-> <<>>]
NoSettle == [via |-> "none", outcome |-> "none", flashed |-> FALSE,
             focused |-> FALSE, returned |-> FALSE, escaped |-> FALSE]

\* a result of a subscriber: the function it came from and the value, either
\* a completion result (truthy) or null (falsy)
Null == [from |-> "", val |-> "null"]
NoReturn == [done |-> FALSE, ret |-> Null, logged |-> FALSE]

\* no event was dispatched yet
DispIdle ==
  /\ dPhase = "idle"
  /\ dCaller = "app"
  /\ dEvent = "none"
  /\ dPlan = <<>>
  /\ dNext = 1
  /\ dInvoked = <<>>
  /\ dResults = <<>>
  /\ dLogged = <<>>
  /\ dReturned = <<>>
  /\ completerRet = NoReturn

\* nothing was invoked yet
EnvIdle == invocations = <<>>

\* no file operation was requested yet
NoRequest == [op |-> "none", name |-> <<>>, handler |-> "none"]
NsIdle == routed = NoRequest

\* the navigator gives no position
NoPos == [kind |-> "none", at |-> 0, found |-> FALSE]

\* no loadPage call is running
NoLoad == [pc |-> "idle", page |-> NoPage, prev |-> NoPage, different |-> FALSE,
           pos |-> NoPos, nav |-> "none",
           saveId |-> 0, read |-> "none", collabBefore |-> FALSE,
           restored |-> FALSE, reload |-> FALSE, cleared |-> 0, next |-> 0]
NoMeta == [name |-> NoPage, lastModified |-> 0, perm |-> "rw"]

\* the page state of an Editor at rest on currentPage
PageIdle ==
  /\ load = NoLoad
  /\ openPages = {}
  /\ watched = (IF currentPage = NoPage THEN {} ELSE {currentPage})
  /\ collab = FALSE
  /\ docPage = currentPage
  /\ loadedText = ""
  /\ docMeta = [NoMeta EXCEPT !.name = currentPage]
  /\ events = <<>>
  /\ loads = 0
  /\ cursor = 0
  /\ pageStates = [p \in {} |-> 0]
  /\ sessions = {}
  /\ collabSession = 0

\* no key was pressed yet
NoKeyPress == [key |-> "none", called |-> <<>>, empty |-> TRUE, node |-> ""]

\* the cursor of a new editor state: offset 0 of the document
CtxIdle ==
  /\ selEmpty = TRUE
  /\ nodeAt = "Document"
  /\ keyResult = NoKeyPress

RestIdle == EnvIdle /\ NsIdle /\ PageIdle /\ CtxIdle

\* the plug state of a new Editor: no plug loaded, createEditorState("", "")
PlugInit ==
  /\ rpc = "idle"
  /\ gen = 0
  /\ unloadedGen = 0
  /\ tasks = {}
  /\ loadedPlugs = <<>>
  /\ editorCommands = <<>>
  /\ subscriptions = <<>>
  /\ slashCommands = <<>>
  /\ commands = <<>>
  /\ keyBindings = <<>>
  /\ pendingRuns = {}
  /\ runs = 0
  /\ runOutcome = "none"
  /\ rebuiltGen = 0
  /\ dispatchedGen = 0
  /\ prevKeys = [p \in Plugs |-> "none"]
  /\ staleRun = FALSE
  /\ lastByName = NoCall
  /\ lastSettle = NoSettle

-----------------------------------------------------------------------------
(* Timers of the host: setTimeout / clearTimeout *)

\* clearTimeout(id): the timer, when still armed, never fires
clearTimeout(ts, id) == {t \in ts : t.id # id}

\* setTimeout(cb, delay): a new armed timer; kind names its callback
setTimeout(ts, id, delay, kind, immediate, burst) ==
  ts \cup {[id |-> id, delay |-> delay, age |-> 0, kind |-> kind,
            immediate |-> immediate, burst |-> burst]}

\* immediate ? 0 : saveInterval
SaveDelay(immediate) == IF immediate THEN 0 ELSE saveInterval

\* Editor.save(immediate): cancel the timer stored in saveTimeout, arm a new one
save(immediate) ==
  /\ nextTimer <= MaxTimers
  /\ timers' = setTimeout(IF saveTimeout # 0
                            THEN clearTimeout(timers, saveTimeout)
                            ELSE timers,
                          nextTimer, SaveDelay(immediate), "save", immediate,
                          burstNo)
  /\ saveTimeout' = nextTimer
  /\ nextTimer' = nextTimer + 1
  /\ promises' = [promises EXCEPT ![nextTimer] = "pending"]

\* ViewPlugin.update with docChanged: 'page-changed', then save()
DocChanged ==
  /\ unsavedChanges' = TRUE
  /\ save(FALSE)
  /\ UNCHANGED <<currentPage, forcedROMode, writes, burstNo, writeLog, errorNotes>>
  /\ UNCHANGED <<plugVars, dispVars, restVars>>

\* a caller asks for an immediate save: save(true)
SaveImmediate ==
  /\ save(TRUE)
  /\ UNCHANGED <<currentPage, unsavedChanges, forcedROMode, writes, burstNo,
                 writeLog, errorNotes>>
  /\ UNCHANGED <<plugVars, dispVars, restVars>>

\* the guard of the timer callback without its read-only test
SaveGuardIgnoresReadOnly == currentPage # NoPage /\ unsavedChanges

\* whether the callback of save's timer calls space.writePage
SaveGuard == currentPage # NoPage /\ unsavedChanges /\ ~forcedROMode

\* the timer armed by save() fires: the callback of lines 285-313
FireSaveTimer(t) ==
  /\ t \in timers /\ t.kind = "save" /\ t.age >= t.delay
  /\ timers' = timers \ {t}
  /\ burstNo' = burstNo + 1
  /\ IF SaveGuard
       THEN /\ writes' = writes \cup {[timer |-> t.id, burst |-> t.burst]}
            /\ writeLog' = writeLog \cup {[timer |-> t.id, burst |-> t.burst]}
            /\ UNCHANGED promises
       ELSE /\ promises' = [promises EXCEPT ![t.id] = "resolved"]
            /\ UNCHANGED <<writes, writeLog>>
  /\ UNCHANGED <<saveTimeout, nextTimer, currentPage, unsavedChanges,
                 forcedROMode, errorNotes>>
  /\ UNCHANGED <<plugVars, dispVars, restVars>>

\* space.writePage resolves: 'page-saved', resolve()
WriteOk(w) ==
  /\ w \in writes
  /\ writes' = writes \ {w}
  /\ unsavedChanges' = FALSE
  /\ promises' = [promises EXCEPT ![w.timer] = "resolved"]
  /\ UNCHANGED <<saveTimeout, timers, nextTimer, currentPage, forcedROMode,
                 burstNo, writeLog, errorNotes>>
  /\ UNCHANGED <<plugVars, dispVars, restVars>>

\* the catch handler without its setTimeout(this.save.bind(this), 10000)
WriteFailNoRetry(w) ==
  /\ w \in writes
  /\ writes' = writes \ {w}
  /\ errorNotes' = errorNotes + 1
  /\ promises' = [promises EXCEPT ![w.timer] = "rejected"]
  /\ UNCHANGED <<saveTimeout, timers, nextTimer, currentPage, unsavedChanges,
                 forcedROMode, burstNo, writeLog>>
  /\ UNCHANGED <<plugVars, dispVars, restVars>>

\* space.writePage rejects: notification, retry timer stored in saveTimeout, reject(e)
WriteFail(w) ==
  /\ w \in writes
  /\ nextTimer <= MaxTimers
  /\ writes' = writes \ {w}
  /\ errorNotes' = errorNotes + 1
  /\ promises' = [promises EXCEPT ![w.timer] = "rejected"]
  /\ timers' = setTimeout(timers, nextTimer, RetryDelay, "retry", FALSE, burstNo)
  /\ saveTimeout' = nextTimer
  /\ nextTimer' = nextTimer + 1
  /\ UNCHANGED <<currentPage, unsavedChanges, forcedROMode, burstNo, writeLog>>
  /\ UNCHANGED <<plugVars, dispVars, restVars>>

\* the retry timer fires: save.bind(this) is called without arguments
FireRetryTimer(t) ==
  /\ t \in timers /\ t.kind = "retry" /\ t.age >= t.delay
  /\ nextTimer <= MaxTimers
  /\ LET rest == timers \ {t}
     IN  timers' = setTimeout(IF saveTimeout # 0
                                THEN clearTimeout(rest, saveTimeout)
                                ELSE rest,
                              nextTimer, SaveDelay(FALSE), "save", FALSE, burstNo)
  /\ saveTimeout' = nextTimer
  /\ nextTimer' = nextTimer + 1
  /\ promises' = [promises EXCEPT ![nextTimer] = "pending"]
  /\ UNCHANGED <<currentPage, unsavedChanges, forcedROMode, writes, burstNo,
                 writeLog, errorNotes>>
  /\ UNCHANGED <<plugVars, dispVars, restVars>>

\* the read-only mode of the view state is switched
ToggleReadOnlyMode ==
  /\ forcedROMode' = ~forcedROMode
  /\ UNCHANGED <<saveTimeout, timers, nextTimer, currentPage, unsavedChanges,
                 writes, burstNo, writeLog, errorNotes, promises>>
  /\ UNCHANGED <<plugVars, dispVars, restVars>>

\* time passes; a timer that is due fires before more time passes
Tick ==
  /\ timers # {}
  /\ \A t \in timers : t.age < t.delay
  /\ timers' = {[t EXCEPT !.age = Min(t.age + TickMs, RetryDelay)] : t \in timers}
  /\ UNCHANGED <<saveTimeout, nextTimer, currentPage, unsavedChanges,
                 forcedROMode, writes, burstNo, writeLog, errorNotes,
                 promises>>
  /\ UNCHANGED <<plugVars, dispVars, restVars>>

SaveInit ==
  /\ saveTimeout = 0
  /\ timers = {}
  /\ nextTimer = 1
  /\ currentPage \in Pages \cup {NoPage}
  /\ unsavedChanges = FALSE
  /\ forcedROMode = FALSE
  /\ writes = {}
  /\ burstNo = 0
  /\ writeLog = {}
  /\ errorNotes = 0
  /\ promises = [i \in 1..MaxTimers |-> "none"]
  /\ PlugInit
  /\ DispIdle
  /\ RestIdle

SaveNext ==
  \/ DocChanged
  \/ SaveImmediate
  \/ \E t \in timers : FireSaveTimer(t)
  \/ \E t \in timers : FireRetryTimer(t)
  \/ \E w \in writes : WriteOk(w)
  \/ \E w \in writes : WriteFail(w)
  \/ ToggleReadOnlyMode
  \/ Tick

SaveSpec == SaveInit /\ [][SaveNext]_vars

\* the host lets time pass and fires the timers that are due; the writes of
\* the space do not fail for ever
SaveFairness ==
  /\ WF_vars(Tick)
  /\ WF_vars(\E t \in timers : FireSaveTimer(t))
  /\ WF_vars(\E t \in timers : FireRetryTimer(t))
  /\ SF_vars(\E w \in writes : WriteOk(w))

SaveLiveSpec == SaveInit /\ [][SaveNext]_vars /\ SaveFairness

-----------------------------------------------------------------------------
(* The plug runtime the Editor drives.  System, CommandHook and EventHook  *)
(* are not among the source files: their effect on the tables follows the  *)
(* design document (sections 3, 4.4, 4.5, 4.6).                            *)

Range(s) == {s[i] : i \in 1..Len(s)}

NoManifest == [key |-> NoKey, priority |-> 0]

\* System.load(manifest): the plug replaces a loaded plug of its name and is
\* the last loaded; epoch is the number of unloadAll() completed before it
systemLoad(plugs, p, man, g, epoch) ==
  SelectSeq(plugs, LAMBDA x : x.name # p)
    \o <<[name |-> p, man |-> man, gen |-> g, epoch |-> epoch]>>

\* System.unloadAll(): no plug stays loaded
unloadAll(plugs) == <<>>

\* the commands that the loaded plugs declare, in load order
LoadedCommands(plugs) ==
  [i \in 1..Len(plugs) |->
     [name |-> CmdName(plugs[i].name), key |-> plugs[i].man.key,
      priority |-> plugs[i].man.priority, plug |-> plugs[i].name,
      gen |-> plugs[i].gen]]

\* CommandHook key binding resolution: the higher declared priority comes
\* first, commands of one priority stay in load order
RECURSIVE ByPriority(_)
ByPriority(cmds) ==
  IF cmds = <<>> THEN <<>>
  ELSE LET top == CHOOSE p \in {cmds[i].priority : i \in 1..Len(cmds)} :
                    \A i \in 1..Len(cmds) : cmds[i].priority <= p
       IN  SelectSeq(cmds, LAMBDA c : c.priority = top)
             \o ByPriority(SelectSeq(cmds, LAMBDA c : c.priority # top))

\* CommandHook: the command table, recomputed in full from the loaded plugs
buildAllCommands(plugs) == ByPriority(LoadedCommands(plugs))

\* EventHook: the subscriptions of the loaded plugs, in registration order
subscribeAll(plugs) ==
  [i \in 1..Len(plugs) |->
     [event |-> "plugs:loaded", plug |-> plugs[i].name, gen |-> plugs[i].gen,
      epoch |-> plugs[i].epoch]]

\* SlashCommandHook: the slash commands that the loaded plugs declare
buildAllSlashCommands(plugs) ==
  [i \in 1..Len(plugs) |->
     [name |-> "slash-" \o plugs[i].name, plug |-> plugs[i].name,
      gen |-> plugs[i].gen]]

\* commandsUpdated: viewDispatch({type: "update-commands", commands: commandMap})
commandsUpdated(commandMap) == commandMap

\* createEditorState with each binding put in front of the earlier ones
createEditorStateUnshift(cmds) ==
  [i \in 1..Len(SelectSeq(cmds, LAMBDA d : d.key # NoKey)) |->
     SelectSeq(cmds, LAMBDA d : d.key # NoKey)
       [Len(SelectSeq(cmds, LAMBDA d : d.key # NoKey)) + 1 - i]]

\* createEditorState: one key binding per command that declares a key, in the
\* order of commandHook.editorCommands.values(); each closes over its def
createEditorState(cmds) == SelectSeq(cmds, LAMBDA d : d.key # NoKey)

\* rebuildEditorState: a new editor state only when a page is current
rebuildEditorState(page, cmds, old) ==
  IF page # NoPage THEN createEditorState(cmds) ELSE old

\* the plug instance that a command def closes over is no longer loaded
Stale(d) ==
  ~ \E i \in 1..Len(loadedPlugs) :
      loadedPlugs[i].name = d.plug /\ loadedPlugs[i].gen = d.gen

\* the key of the command a loaded plug declares ("none": not loaded)
LoadedKey(p) ==
  IF \E i \in 1..Len(loadedPlugs) : loadedPlugs[i].name = p
    THEN (CHOOSE x \in Range(loadedPlugs) : x.name = p).man.key
    ELSE "none"

\* the system tables after the loaded plugs changed: both hooks follow
TablesFollow(plugs) ==
  /\ loadedPlugs' = plugs
  /\ editorCommands' = buildAllCommands(plugs)
  /\ subscriptions' = subscribeAll(plugs)
  /\ slashCommands' = buildAllSlashCommands(plugs)
  /\ commands' = commandsUpdated(buildAllCommands(plugs))

runVars == <<pendingRuns, runs, staleRun, lastByName, lastSettle>>
tableVars == <<loadedPlugs, editorCommands, subscriptions, slashCommands,
               commands>>

\* reloadPlugs() is called: await this.space.updatePageList().  The model
\* follows runs that start when the async functions of earlier runs have ended
ReloadStart ==
  /\ rpc = "idle" /\ gen < MaxReloads
  /\ \A t \in tasks : t.st \in {"loaded", "failed"}
  /\ gen' = gen + 1
  /\ rpc' = "updatePageList"
  /\ runOutcome' = "running"
  /\ tasks' = {}
  /\ UNCHANGED <<unloadedGen, tableVars, keyBindings, rebuiltGen, dispatchedGen,
                 prevKeys, runVars, currentPage, saveVars, dispVars, restVars>>

\* reloadPlugs() without its call of system.unloadAll()
ReloadSkipsUnloadAll ==
  /\ rpc = "updatePageList"
  /\ rpc' = "unloaded"
  /\ unloadedGen' = gen
  /\ prevKeys' = [p \in Plugs |-> LoadedKey(p)]
  /\ UNCHANGED <<gen, tasks, tableVars, keyBindings, runOutcome, rebuiltGen,
                 dispatchedGen, runVars, currentPage, saveVars, dispVars,
                 restVars>>

\* await this.system.unloadAll()
ReloadUnloadAll ==
  /\ rpc = "updatePageList"
  /\ rpc' = "unloaded"
  /\ unloadedGen' = gen
  /\ prevKeys' = [p \in Plugs |-> LoadedKey(p)]
  /\ TablesFollow(unloadAll(loadedPlugs))
  /\ UNCHANGED <<gen, tasks, keyBindings, runOutcome, rebuiltGen, dispatchedGen,
                 runVars, currentPage, saveVars, dispVars, restVars>>

\* (await this.space.listPlugs()).map(async ...): one async function per plug
\* is started, each awaiting its readAttachment
ReloadListPlugs ==
  /\ rpc = "unloaded"
  /\ rpc' = "loading"
  /\ tasks' = tasks \cup {[plug |-> p, gen |-> gen, st |-> "reading",
                           man |-> NoManifest] : p \in Plugs}
  /\ UNCHANGED <<gen, unloadedGen, tableVars, keyBindings, runOutcome,
                 rebuiltGen, dispatchedGen, prevKeys, runVars, currentPage,
                 saveVars, dispVars, restVars>>

\* Promise.all rejects with the first rejection: reloadPlugs() ends there
PromiseAllRejects(t) ==
  IF t.gen = gen /\ rpc = "loading"
    THEN rpc' = "idle" /\ runOutcome' = "rejected"
    ELSE UNCHANGED <<rpc, runOutcome>>

\* space.readAttachment resolves and JSON.parse gives manifest m
ReadAttachment(t, m) ==
  /\ t \in tasks /\ t.st = "reading"
  /\ tasks' = (tasks \ {t}) \cup {[t EXCEPT !.st = "loading", !.man = m]}
  /\ UNCHANGED <<rpc, gen, unloadedGen, tableVars, keyBindings, runOutcome,
                 rebuiltGen, dispatchedGen, prevKeys, runVars, currentPage,
                 saveVars, dispVars, restVars>>

\* space.readAttachment rejects or JSON.parse throws
ReadFails(t) ==
  /\ t \in tasks /\ t.st = "reading"
  /\ tasks' = (tasks \ {t}) \cup {[t EXCEPT !.st = "failed"]}
  /\ PromiseAllRejects(t)
  /\ UNCHANGED <<gen, unloadedGen, tableVars, keyBindings, rebuiltGen,
                 dispatchedGen, prevKeys, runVars, currentPage, saveVars, dispVars,
                 restVars>>

\* await this.system.load(manifest, createSandbox) resolves
SystemLoad(t) ==
  /\ t \in tasks /\ t.st = "loading"
  /\ tasks' = (tasks \ {t}) \cup {[t EXCEPT !.st = "loaded"]}
  /\ TablesFollow(systemLoad(loadedPlugs, t.plug, t.man, t.gen, unloadedGen))
  /\ UNCHANGED <<rpc, gen, unloadedGen, keyBindings, runOutcome, rebuiltGen,
                 dispatchedGen, prevKeys, runVars, currentPage, saveVars, dispVars,
                 restVars>>

\* this.system.load rejects
SystemLoadFails(t) ==
  /\ t \in tasks /\ t.st = "loading"
  /\ tasks' = (tasks \ {t}) \cup {[t EXCEPT !.st = "failed"]}
  /\ PromiseAllRejects(t)
  /\ UNCHANGED <<gen, unloadedGen, tableVars, keyBindings, rebuiltGen,
                 dispatchedGen, prevKeys, runVars, currentPage, saveVars, dispVars,
                 restVars>>

\* a Promise.race in the place of Promise.all: one async function has resolved
PromiseRaceResolved ==
  \E t \in tasks : t.gen = gen /\ t.st = "loaded"

\* Promise.all resolves: every async function of this run has resolved
PromiseAllResolved ==
  /\ \E t \in tasks : t.gen = gen
  /\ \A t \in tasks : t.gen = gen => t.st = "loaded"

\* this.rebuildEditorState(); await this.dispatchAppEvent("plugs:loaded")
ReloadFinish ==
  /\ rpc = "loading" /\ PromiseAllResolved
  /\ keyBindings' = rebuildEditorState(currentPage, editorCommands, keyBindings)
  /\ rebuiltGen' = gen
  /\ dispatchedGen' = gen
  /\ rpc' = "dispatching"
  /\ UNCHANGED <<gen, unloadedGen, tasks, tableVars, runOutcome, prevKeys,
                 runVars, currentPage, saveVars, dispVars, restVars>>

\* the dispatch of 'plugs:loaded' resolves: reloadPlugs() completes
ReloadDone ==
  /\ rpc = "dispatching"
  /\ rpc' = "idle"
  /\ runOutcome' = "completed"
  /\ UNCHANGED <<gen, unloadedGen, tasks, tableVars, keyBindings, rebuiltGen,
                 dispatchedGen, prevKeys, runVars, currentPage, saveVars, dispVars,
                 restVars>>

reloadVars == <<rpc, gen, unloadedGen, tasks, runOutcome, rebuiltGen,
                dispatchedGen, prevKeys>>

\* loadPage(p), from createEditorState(pageName, doc.text) to 'page-loaded'
LoadPageFinish(p) ==
  /\ keyBindings' = createEditorState(editorCommands)
  /\ currentPage' = p
  /\ UNCHANGED <<reloadVars, tableVars, runVars, saveVars, dispVars, restVars>>

\* startCollab(...): this.rebuildEditorState()
StartCollab ==
  /\ keyBindings' = rebuildEditorState(currentPage, editorCommands, keyBindings)
  /\ UNCHANGED <<reloadVars, tableVars, runVars, currentPage, saveVars, dispVars,
                 restVars>>

-----------------------------------------------------------------------------
(* Running commands: key bindings, command palette, runCommandByName.      *)
(* A command's run function invokes a function of its plug in the plug's   *)
(* sandbox: the call is asynchronous and settles later, with a result or   *)
(* with a failure (a rejected promise).                                    *)

RunOutcomes == {"ok", "rejects"}

\* def.run / cmd.run is called: the call is in flight
CallRun(d, via, k) ==
  /\ runs < MaxRuns
  /\ runs' = runs + 1
  /\ pendingRuns' = pendingRuns \cup
       {[id |-> runs + 1, name |-> d.name, plug |-> d.plug, gen |-> d.gen,
         priority |-> d.priority, via |-> via, key |-> k]}
  /\ staleRun' = (staleRun \/ Stale(d))

\* the key bindings of the keymap that declare key k, in keymap order
BindingsOf(k) == SelectSeq(keyBindings, LAMBDA b : b.key = k)

\* a key is pressed: the first binding of the key runs (its handler returns true)
KeyPress(k) ==
  /\ BindingsOf(k) # <<>>
  /\ CallRun(Head(BindingsOf(k)), "key", k)
  /\ UNCHANGED <<lastByName, lastSettle, reloadVars, tableVars, keyBindings,
                 currentPage, saveVars, dispVars, restVars>>

\* CommandPalette onTrigger(cmd) with a command of viewState.commands
PaletteTrigger(i) ==
  /\ i \in 1..Len(commands)
  /\ CallRun(commands[i], "palette", NoKey)
  /\ UNCHANGED <<lastByName, lastSettle, reloadVars, tableVars, keyBindings,
                 currentPage, saveVars, dispVars, restVars>>

\* this.viewState.commands.get(name)
CommandsGet(name) == SelectSeq(commands, LAMBDA c : c.name = name)

\* runCommandByName(name) with the throw left out
runCommandByNameNoThrow(name) ==
  /\ IF CommandsGet(name) # <<>>
       THEN /\ CallRun(Head(CommandsGet(name)), "byName", NoKey)
            /\ lastByName' = [name |-> name, result |-> "ran",
                              ran |-> <<[name |-> Head(CommandsGet(name)).name,
                                        gen |-> Head(CommandsGet(name)).gen]>>]
       ELSE /\ lastByName' = [name |-> name, result |-> "returned", ran |-> <<>>]
            /\ UNCHANGED <<pendingRuns, runs, staleRun>>
  /\ UNCHANGED <<lastSettle, reloadVars, tableVars, keyBindings, currentPage,
                 saveVars, dispVars, restVars>>

\* runCommandByName(name)
runCommandByName(name) ==
  /\ IF CommandsGet(name) # <<>>
       THEN /\ CallRun(Head(CommandsGet(name)), "byName", NoKey)
            /\ lastByName' = [name |-> name, result |-> "ran",
                              ran |-> <<[name |-> Head(CommandsGet(name)).name,
                                        gen |-> Head(CommandsGet(name)).gen]>>]
       ELSE /\ lastByName' = [name |-> name, result |-> "Command not found",
                              ran |-> <<>>]
            /\ UNCHANGED <<pendingRuns, runs, staleRun>>
  /\ UNCHANGED <<lastSettle, reloadVars, tableVars, keyBindings, currentPage,
                 saveVars, dispVars, restVars>>

\* the chain of the key handler without its catch
keyRunSettlesNoCatch(o) ==
  [via |-> "key", outcome |-> o, flashed |-> FALSE, focused |-> (o = "ok"),
   returned |-> TRUE, escaped |-> (o = "rejects")]

\* Promise.resolve().then(def.run).catch(flashNotification).then(focus),
\* after the handler has returned true
keyRunSettles(o) ==
  [via |-> "key", outcome |-> o, flashed |-> (o = "rejects"), focused |-> TRUE,
   returned |-> TRUE, escaped |-> FALSE]

\* cmd.run().catch(console.error).then(focus)
paletteRunSettles(o) ==
  [via |-> "palette", outcome |-> o, flashed |-> FALSE, focused |-> TRUE,
   returned |-> FALSE, escaped |-> FALSE]

\* await cmd.run(): a rejection is the rejection of runCommandByName
byNameRunSettles(o) ==
  [via |-> "byName", outcome |-> o, flashed |-> FALSE, focused |-> FALSE,
   returned |-> FALSE, escaped |-> (o = "rejects")]

\* the call of a run function settles
CommandSettles(r, o) ==
  /\ r \in pendingRuns
  /\ pendingRuns' = pendingRuns \ {r}
  /\ lastSettle' = CASE r.via = "key" -> keyRunSettles(o)
                     [] r.via = "palette" -> paletteRunSettles(o)
                     [] OTHER -> byNameRunSettles(o)
  /\ UNCHANGED <<runs, staleRun, lastByName, reloadVars, tableVars,
                 keyBindings, currentPage, saveVars, dispVars, restVars>>

\* the save state of a new Editor
SaveIdle ==
  /\ saveTimeout = 0
  /\ timers = {}
  /\ nextTimer = 1
  /\ unsavedChanges = FALSE
  /\ forcedROMode = FALSE
  /\ writes = {}
  /\ burstNo = 0
  /\ writeLog = {}
  /\ errorNotes = 0
  /\ promises = [i \in 1..MaxTimers |-> "none"]

Init ==
  /\ currentPage = NoPage
  /\ SaveIdle
  /\ PlugInit
  /\ DispIdle
  /\ RestIdle

Next ==
  \/ ReloadStart
  \/ ReloadUnloadAll
  \/ ReloadListPlugs
  \/ \E t \in tasks, m \in Manifests : ReadAttachment(t, m)
  \/ \E t \in tasks : ReadFails(t)
  \/ \E t \in tasks : SystemLoad(t)
  \/ \E t \in tasks : SystemLoadFails(t)
  \/ ReloadFinish
  \/ ReloadDone
  \/ \E p \in Pages : LoadPageFinish(p)
  \/ StartCollab
  \/ \E k \in Keys : runs < MaxKeyPresses /\ KeyPress(k)

Spec == Init /\ [][Next]_vars

\* reloadPlugs, loadPage and startCollab alone: no key is pressed
ReloadNext ==
  \/ ReloadStart
  \/ ReloadUnloadAll
  \/ ReloadListPlugs
  \/ \E t \in tasks, m \in Manifests : ReadAttachment(t, m)
  \/ \E t \in tasks : ReadFails(t)
  \/ \E t \in tasks : SystemLoad(t)
  \/ \E t \in tasks : SystemLoadFails(t)
  \/ ReloadFinish
  \/ ReloadDone
  \/ \E p \in Pages : LoadPageFinish(p)
  \/ StartCollab

ReloadSpec == Init /\ [][ReloadNext]_vars

\* the tables System.load leaves when the plugs of ps were loaded in this order
LoadedInOrder(ps, man) ==
  [i \in 1..Len(ps) |-> [name |-> ps[i], man |-> man[ps[i]], gen |-> 1,
                         epoch |-> 1]]

\* the orders in which one or both plugs of the space end up loaded
LoadOrders == {<<"p1">>, <<"p2">>, <<"p1", "p2">>, <<"p2", "p1">>}

\* an Editor with a page open after its first reloadPlugs(): the plugs that
\* loaded are in the tables and the editor state was built from them
CmdInit ==
  /\ currentPage \in Pages
  /\ SaveIdle
  /\ DispIdle
  /\ RestIdle
  /\ \E ps \in LoadOrders, man \in [Plugs -> Manifests] :
       /\ loadedPlugs = LoadedInOrder(ps, man)
       /\ editorCommands = buildAllCommands(LoadedInOrder(ps, man))
       /\ subscriptions = subscribeAll(LoadedInOrder(ps, man))
       /\ slashCommands = buildAllSlashCommands(LoadedInOrder(ps, man))
       /\ commands = commandsUpdated(buildAllCommands(LoadedInOrder(ps, man)))
       /\ keyBindings = createEditorState(buildAllCommands(LoadedInOrder(ps, man)))
       /\ tasks = {[plug |-> p, gen |-> 1,
                    st |-> IF \E i \in 1..Len(ps) : ps[i] = p
                             THEN "loaded" ELSE "failed",
                    man |-> IF \E i \in 1..Len(ps) : ps[i] = p
                              THEN man[p] ELSE NoManifest] : p \in Plugs}
       /\ runOutcome = IF Len(ps) = Len(PlugList) THEN "completed" ELSE "rejected"
       /\ rebuiltGen = IF Len(ps) = Len(PlugList) THEN 1 ELSE 0
       /\ dispatchedGen = IF Len(ps) = Len(PlugList) THEN 1 ELSE 0
  /\ rpc = "idle"
  /\ gen = 1
  /\ unloadedGen = 1
  /\ pendingRuns = {}
  /\ runs = 0
  /\ prevKeys = [p \in Plugs |-> "none"]
  /\ staleRun = FALSE
  /\ lastByName = NoCall
  /\ lastSettle = NoSettle

CmdNext ==
  \/ \E k \in Keys : KeyPress(k)
  \/ \E i \in 1..Len(commands) : PaletteTrigger(i)
  \/ \E n \in CmdNames \cup {"cmd-none"} : runCommandByName(n)
  \/ \E r \in pendingRuns, o \in RunOutcomes : CommandSettles(r, o)

CmdSpec == CmdInit /\ [][CmdNext]_vars

-----------------------------------------------------------------------------
(* The context filter of key-bound commands: the run handler of a key      *)
(* binding (createEditorState) asks getContext() when its command declares *)
(* contexts.  The keymap calls the handlers of the bindings of a key in     *)
(* order until one returns true.                                            *)

\* the names of the syntax nodes the cursor can be in; "" is a node type
\* without a name
NodeNames == {"NakedURL", "Document", ""}

\* getContext() returns undefined
NoContext == "undefined"

\* command.contexts is not declared
NoContexts == [declared |-> FALSE, names |-> {}]

\* command.contexts of a manifest: absent, the list of unfurlLink, an empty list
ContextLists == {NoContexts,
                 [declared |-> TRUE, names |-> {"NakedURL"}],
                 [declared |-> TRUE, names |-> {}]}

\* Editor.getContext: the node at the cursor when the selection is empty
getContext(empty, node) == IF empty THEN node ELSE NoContext

\* !context
NotContext(context) == context = NoContext \/ context = ""

\* a run handler that does not look at def.command.contexts
bindingRunsAnywhere(d, context) == TRUE

\* what the run handler of the binding of def d returns: false when the
\* declared contexts do not include the context, true after it called def.run
bindingRuns(d, context) ==
  IF d.contexts.declared
    THEN ~(NotContext(context) \/ context \notin d.contexts.names)
    ELSE TRUE

\* the handlers the keymap calls for the bindings bs of a key, with what each
\* returned: it stops at the first that returns true
RECURSIVE runHandlers(_, _)
runHandlers(bs, context) ==
  IF bs = <<>> THEN <<>>
  ELSE <<[name |-> Head(bs).name, ret |-> bindingRuns(Head(bs), context)]>>
         \o (IF bindingRuns(Head(bs), context)
               THEN <<>>
               ELSE runHandlers(Tail(bs), context))

\* the command table with the contexts each plug's command declares
WithContexts(cmds, ctx) ==
  [i \in 1..Len(cmds) |->
     [name |-> cmds[i].name, key |-> cmds[i].key, priority |-> cmds[i].priority,
      plug |-> cmds[i].plug, gen |-> cmds[i].gen, contexts |-> ctx[cmds[i].plug]]]

\* a key is pressed with the cursor where it is
KeyPressInContext(k) ==
  /\ BindingsOf(k) # <<>>
  /\ LET called == runHandlers(BindingsOf(k), getContext(selEmpty, nodeAt))
     IN  /\ keyResult' = [key |-> k, called |-> called, empty |-> selEmpty,
                          node |-> nodeAt]
         /\ IF called[Len(called)].ret
              THEN CallRun(BindingsOf(k)[Len(called)], "key", k)
              ELSE UNCHANGED <<pendingRuns, runs, staleRun>>
  /\ UNCHANGED <<lastByName, lastSettle, reloadVars, tableVars, keyBindings,
                 currentPage, saveVars, dispVars, envVars, nsVars, pageVars,
                 selEmpty, nodeAt>>

\* the user moves the cursor or selects a range
MoveCursor(empty, node) ==
  /\ selEmpty' = empty
  /\ nodeAt' = node
  /\ UNCHANGED <<keyResult, plugVars, currentPage, saveVars, dispVars, envVars,
                 nsVars, pageVars>>

\* an Editor with a page open and both plugs loaded, each command with the
\* key, priority and contexts of its manifest
CtxInit ==
  /\ currentPage \in Pages
  /\ SaveIdle
  /\ DispIdle
  /\ RestIdle
  /\ \E man \in [Plugs -> Manifests], ctx \in [Plugs -> ContextLists] :
       /\ loadedPlugs = LoadedInOrder(PlugList, man)
       /\ editorCommands =
            WithContexts(buildAllCommands(LoadedInOrder(PlugList, man)), ctx)
       /\ commands = commandsUpdated(
            WithContexts(buildAllCommands(LoadedInOrder(PlugList, man)), ctx))
       /\ keyBindings = createEditorState(
            WithContexts(buildAllCommands(LoadedInOrder(PlugList, man)), ctx))
       /\ subscriptions = subscribeAll(LoadedInOrder(PlugList, man))
       /\ slashCommands = buildAllSlashCommands(LoadedInOrder(PlugList, man))
       /\ tasks = {[plug |-> p, gen |-> 1, st |-> "loaded", man |-> man[p]] :
                     p \in Plugs}
  /\ runOutcome = "completed"
  /\ rebuiltGen = 1
  /\ dispatchedGen = 1
  /\ rpc = "idle"
  /\ gen = 1
  /\ unloadedGen = 1
  /\ pendingRuns = {}
  /\ runs = 0
  /\ prevKeys = [p \in Plugs |-> "none"]
  /\ staleRun = FALSE
  /\ lastByName = NoCall
  /\ lastSettle = NoSettle

CtxNext ==
  \/ \E k \in Keys : KeyPressInContext(k)
  \/ \E empty \in BOOLEAN, node \in NodeNames : MoveCursor(empty, node)

CtxSpec == CtxInit /\ [][CtxNext]_vars

-----------------------------------------------------------------------------
(* Event dispatch.  Editor.dispatchAppEvent hands the event to              *)
(* EventHook.dispatchEvent, which is not among the source files: it follows *)
(* section 4.4 of the design document.  The subscribers are the functions   *)
(* of the core plug manifest that list the event.                           *)

\* the functions of the core plug that subscribe to an event, in manifest order
EventSubscribers(e) ==
  IF e = "page:complete"
    THEN <<"pageComplete", "commandComplete", "tagComplete", "anchorComplete">>
  ELSE IF e = "page:index"
    THEN <<"indexLinks", "indexItem", "indexTags", "indexAnchors", "searchIndex">>
  ELSE <<>>

\* what a subscriber does when invoked: it returns a result, returns null,
\* or its invocation fails
Outcomes == {"result", "null", "throws"}

Plans(e) == [1..Len(EventSubscribers(e)) -> Outcomes]

\* JavaScript truthiness of a result
Truthy(r) == r.val # "null"

\* dispatchAppEvent(name): this.eventHook.dispatchEvent(name, data) starts
dispatchAppEvent(caller, e, plan) ==
  /\ dPhase = "idle"
  /\ dPhase' = "dispatching"
  /\ dCaller' = caller
  /\ dEvent' = e
  /\ dPlan' = plan
  /\ dNext' = 1
  /\ dInvoked' = <<>>
  /\ dResults' = <<>>
  /\ dLogged' = <<>>
  /\ dReturned' = <<>>
  /\ completerRet' = NoReturn
  /\ UNCHANGED <<currentPage, saveVars, plugVars, restVars>>

\* dispatchEvent that gives up at the first subscriber that fails
InvokeSubscriberAborting ==
  /\ dPhase = "dispatching" /\ dNext <= Len(EventSubscribers(dEvent))
  /\ dInvoked' = Append(dInvoked, EventSubscribers(dEvent)[dNext])
  /\ IF dPlan[dNext] = "throws"
       THEN /\ dLogged' = Append(dLogged, EventSubscribers(dEvent)[dNext])
            /\ dNext' = Len(EventSubscribers(dEvent)) + 1
            /\ UNCHANGED dResults
       ELSE /\ dResults' = Append(dResults,
                                  [from |-> EventSubscribers(dEvent)[dNext],
                                   val |-> dPlan[dNext]])
            /\ dNext' = dNext + 1
            /\ UNCHANGED dLogged
  /\ UNCHANGED <<dPhase, dCaller, dEvent, dPlan, dReturned, completerRet,
                 currentPage, saveVars, plugVars, restVars>>

\* dispatchEvent: the next subscriber in registration order is invoked; a
\* failure is logged and contributes no result, the dispatch goes on
InvokeSubscriber ==
  /\ dPhase = "dispatching" /\ dNext <= Len(EventSubscribers(dEvent))
  /\ dInvoked' = Append(dInvoked, EventSubscribers(dEvent)[dNext])
  /\ dNext' = dNext + 1
  /\ IF dPlan[dNext] = "throws"
       THEN /\ dLogged' = Append(dLogged, EventSubscribers(dEvent)[dNext])
            /\ UNCHANGED dResults
       ELSE /\ dResults' = Append(dResults,
                                  [from |-> EventSubscribers(dEvent)[dNext],
                                   val |-> dPlan[dNext]])
            /\ UNCHANGED dLogged
  /\ UNCHANGED <<dPhase, dCaller, dEvent, dPlan, dReturned, completerRet,
                 currentPage, saveVars, plugVars, restVars>>

\* dispatchEvent resolves with the results of the subscribers that succeeded
DispatchResolves ==
  /\ dPhase = "dispatching" /\ dNext > Len(EventSubscribers(dEvent))
  /\ dPhase' = "resolved"
  /\ dReturned' = dResults
  /\ UNCHANGED <<dCaller, dEvent, dPlan, dNext, dInvoked, dResults, dLogged,
                 completerRet, currentPage, saveVars, plugVars, restVars>>

\* the loop of completer() over the results, actualResult being the answer
\* found so far
RECURSIVE completerLoop(_, _)
completerLoop(results, actualResult) ==
  IF results = <<>>
    THEN [done |-> TRUE, ret |-> actualResult, logged |-> FALSE]
  ELSE IF Truthy(Head(results))
    THEN IF Truthy(actualResult)
           THEN [done |-> TRUE, ret |-> Null, logged |-> TRUE]
           ELSE completerLoop(Tail(results), Head(results))
  ELSE completerLoop(Tail(results), actualResult)

\* completer() that answers with the first truthy result
RECURSIVE completerFirstTruthy(_)
completerFirstTruthy(results) ==
  IF results = <<>>
    THEN [done |-> TRUE, ret |-> Null, logged |-> FALSE]
  ELSE IF Truthy(Head(results))
    THEN [done |-> TRUE, ret |-> Head(results), logged |-> FALSE]
  ELSE completerFirstTruthy(Tail(results))

\* completer(), from the results of the dispatch on
completer(results) == completerLoop(results, Null)

\* completer() is called: await this.dispatchAppEvent("page:complete")
CompleterStart(plan) == dispatchAppEvent("completer", "page:complete", plan)

\* completer() resumes with the results and returns
CompleterReturns ==
  /\ dPhase = "resolved" /\ dCaller = "completer"
  /\ dPhase' = "idle"
  /\ completerRet' = completer(dReturned)
  /\ UNCHANGED <<dCaller, dEvent, dPlan, dNext, dInvoked, dResults, dLogged,
                 dReturned, currentPage, saveVars, plugVars, restVars>>

\* another caller of dispatchAppEvent resumes with the results
AppResumes ==
  /\ dPhase = "resolved" /\ dCaller = "app"
  /\ dPhase' = "idle"
  /\ UNCHANGED <<dCaller, dEvent, dPlan, dNext, dInvoked, dResults, dLogged,
                 dReturned, completerRet, currentPage, saveVars, plugVars, restVars>>

\* an Editor with a page open and the core plug loaded; the plugs of the
\* space and the save are left at rest
DispatchInit ==
  /\ currentPage \in Pages
  /\ SaveIdle
  /\ PlugInit
  /\ DispIdle
  /\ RestIdle

DispatchNext ==
  \/ \E plan \in Plans("page:complete") : CompleterStart(plan)
  \/ \E plan \in Plans("page:index") : dispatchAppEvent("app", "page:index", plan)
  \/ InvokeSubscriber
  \/ DispatchResolves
  \/ CompleterReturns
  \/ AppResumes

DispatchSpec == DispatchInit /\ [][DispatchNext]_vars

-----------------------------------------------------------------------------
(* Invocations in the Editor's System.  The Editor creates its System for  *)
(* the environment "client"; the functions and their env tags are those of *)
(* the core plug manifest.  The check of the environment is made by the    *)
(* System, which is not among the source files: it follows sections 3 and  *)
(* 4.3 of the design document.                                             *)

\* a System created for the server
runtimeEnvServer == "server"

\* private system = new System<SilverBulletHooks>("client")
runtimeEnv == "client"

\* the functions of the core plug that declare env: server
ServerFunctions ==
  {"clearPageIndex", "reindexSpace", "searchUnindex", "updatePlugs", "unfurlExec"}

\* functions of the core plug that declare no env
AnyFunctions == {"pageComplete", "indexLinks"}

\* the execution environment tag of a function ("any": unspecified = either)
FunctionEnv(f) == IF f \in ServerFunctions THEN "server" ELSE "any"

\* the syscall bindings: the Editor registers its syscalls for its own
\* System (registerSyscalls([], ...)); "serverOnly" stands for a
\* syscall declared for the server
Syscalls == {"index.get", "serverOnly"}
SyscallEnv(sc) == IF sc = "serverOnly" THEN "server" ELSE "any"

\* whether something declared for environment declared may run in env
CanRun(declared, env) == declared = "any" \/ declared = env

\* a function of a plug is invoked (by an event, a command, a syscall)
InvokeFunction(f) ==
  /\ Len(invocations) < MaxInvocations
  /\ invocations' = Append(invocations,
       [kind |-> "function", name |-> f, env |-> FunctionEnv(f),
        st |-> "pending", ranIn |-> "none"])
  /\ UNCHANGED <<currentPage, saveVars, plugVars, dispVars, nsVars, pageVars, ctxVars>>

\* a sandbox of the Editor's System makes a syscall
InvokeSyscall(sc) ==
  /\ Len(invocations) < MaxInvocations
  /\ invocations' = Append(invocations,
       [kind |-> "syscall", name |-> sc, env |-> SyscallEnv(sc),
        st |-> "pending", ranIn |-> "none"])
  /\ UNCHANGED <<currentPage, saveVars, plugVars, dispVars, nsVars, pageVars, ctxVars>>

\* the System decides an invocation: it runs in the System's environment, or
\* it fails with EnvironmentMismatch and nothing runs
InvocationSettles(i) ==
  /\ i \in 1..Len(invocations) /\ invocations[i].st = "pending"
  /\ invocations' =
       [invocations EXCEPT ![i] =
          IF CanRun(invocations[i].env, runtimeEnv)
            THEN [@ EXCEPT !.st = "executed", !.ranIn = runtimeEnv]
            ELSE [@ EXCEPT !.st = "EnvironmentMismatch"]]
  /\ UNCHANGED <<currentPage, saveVars, plugVars, dispVars, nsVars, pageVars, ctxVars>>

EnvInit ==
  /\ currentPage \in Pages
  /\ SaveIdle
  /\ PlugInit
  /\ DispIdle
  /\ RestIdle

EnvNext ==
  \/ \E f \in ServerFunctions \cup AnyFunctions : InvokeFunction(f)
  \/ \E sc \in Syscalls : InvokeSyscall(sc)
  \/ \E i \in 1..Len(invocations) : InvocationSettles(i)

EnvSpec == EnvInit /\ [][EnvNext]_vars

-----------------------------------------------------------------------------
(* Page namespace routing.  The handlers and their patterns are those of   *)
(* the core plug manifest; the hook that routes a file operation is not    *)
(* among the source files and follows section 6 of the design document.    *)
(* A page name is a sequence of characters: "S" is the search glyph, "C"   *)
(* the cloud glyph, "nl" a line break.                                     *)

Chars == {"S", "C", " ", "t", "nl"}

RECURSIVE NamesOfLen(_)
NamesOfLen(n) ==
  IF n = 0 THEN {<<>>}
  ELSE {Append(w, c) : w \in NamesOfLen(n - 1), c \in Chars}

Names == UNION {NamesOfLen(n) : n \in 0..MaxNameLen}

Operations == {"readFile", "getFileMeta"}

\* the pageNamespace declarations of the core plug, in manifest order
NamespaceHandlers ==
  << [function |-> "readPageSearch", glyph |-> "S", operation |-> "readFile"],
     [function |-> "getPageMetaSearch", glyph |-> "S", operation |-> "getFileMeta"],
     [function |-> "readPageCloud", glyph |-> "C", operation |-> "readFile"],
     [function |-> "getPageMetaCloud", glyph |-> "C", operation |-> "getFileMeta"] >>

\* the regular expression '.': any character but a line break
Dot(c) == c # "nl"

\* the pattern "<glyph> .+" searched anywhere in the name
PatternFound(glyph, name) ==
  \E i \in 1..Len(name) :
    /\ i + 2 <= Len(name)
    /\ name[i] = glyph /\ name[i + 1] = " " /\ Dot(name[i + 2])

\* the pattern "<glyph> .+" matched against the whole name
PatternMatches(glyph, name) ==
  /\ Len(name) >= 3
  /\ name[1] = glyph
  /\ name[2] = " "
  /\ \A i \in 3..Len(name) : Dot(name[i])

\* whether a handler claims the operation on the name
Claims(h, op, name) == h.operation = op /\ PatternMatches(h.glyph, name)

\* the handler that services the call: the first that claims it, or none
RouteTo(op, name) ==
  IF \E i \in 1..Len(NamespaceHandlers) : Claims(NamespaceHandlers[i], op, name)
    THEN NamespaceHandlers[
           CHOOSE i \in 1..Len(NamespaceHandlers) :
             /\ Claims(NamespaceHandlers[i], op, name)
             /\ \A j \in 1..(i - 1) : ~Claims(NamespaceHandlers[j], op, name)
         ].function
    ELSE "none"

\* a file operation on a page name is requested (one request is followed)
RequestFile(op, name) ==
  /\ routed = NoRequest
  /\ routed' = [op |-> op, name |-> name, handler |-> RouteTo(op, name)]
  /\ UNCHANGED <<currentPage, saveVars, plugVars, dispVars, envVars, pageVars, ctxVars>>

RouteInit ==
  /\ currentPage \in Pages
  /\ SaveIdle
  /\ PlugInit
  /\ DispIdle
  /\ RestIdle

RouteNext == \E op \in Operations, name \in Names : RequestFile(op, name)

RouteSpec == RouteInit /\ [][RouteNext]_vars

-----------------------------------------------------------------------------
(* Loading a page: Editor.loadPage(pageName).  One call is followed from   *)
(* its start to its settlement; its awaits (save(true), space.readPage,    *)
(* eventHook.dispatchEvent) are the points where other steps interleave.   *)

\* the pages of the space that are navigated to
PagesOfSpace == {"a", "b"}

\* what a loadPage call emits
Emit(what, page) == [what |-> what, page |-> page]

\* pageName !== this.currentPage
loadingDifferentPage(pageName, current) == pageName # current

\* the event of a load that is always 'editor:pageLoaded'
LoadEventAlwaysLoaded(different) == "editor:pageLoaded"

\* the event dispatched at the end of loadPage
LoadEvent(different) ==
  IF different THEN "editor:pageLoaded" ELSE "editor:pageReloaded"

\* what space.readPage(pageName) resolves with
ReadResults(pageName) ==
  {[text |-> "text",
    meta |-> [name |-> pageName, lastModified |-> 1, perm |-> perm]] :
     perm \in {"rw", "ro"}}

\* the document of the catch branch: not found, new page
EmptyDoc(pageName) ==
  [text |-> "", meta |-> [name |-> pageName, lastModified |-> 0, perm |-> "rw"]]

\* the offsets in a document that the selection is followed at
Offsets == {0, 3}

\* the position the navigator hands to its subscriber: none, an offset, or
\* the name of an anchor, with what the lookup of the anchor gives
Positions ==
  {NoPos}
    \cup {[kind |-> "offset", at |-> o, found |-> TRUE] : o \in Offsets}
    \cup {[kind |-> "anchor", at |-> 3, found |-> TRUE],
          [kind |-> "anchor", at |-> 0, found |-> FALSE]}

\* if (pos): a number other than 0 or a string
posTruthy(pos) == pos.kind = "anchor" \/ (pos.kind = "offset" /\ pos.at # 0)

\* Editor.saveState(page): openPages.set(page, new PageState(.., selection))
saveState(page) ==
  [p \in openPages \cup {page} |-> IF p = page THEN cursor ELSE pageStates[p]]

\* Editor.restoreState(page): the selection it dispatches
restoreState(page) == IF page \in openPages THEN pageStates[page] ELSE 0

\* the ids that tell collab sessions apart
SessionIds == {1, 2}

\* a session is left running when another is started
stopSessionNot(ss, id) == ss

\* collabState.stop() of the session collabState refers to, if any
stopSession(ss, id) == {x \in ss : x.id # id}

\* no loadPage call and no subscriber of the navigator is under way
LoadSettled ==
  \/ load.pc \in {"idle", "rejected"}
  \/ load.pc = "done" /\ load.nav # "pending"

\* saveState(previousPage); space.unwatchPage(previousPage)
closePrevious(previousPage) ==
  /\ openPages' = openPages \cup {previousPage}
  /\ pageStates' = saveState(previousPage)
  /\ watched' = watched \ {previousPage}

\* viewDispatch 'page-loading', then space.readPage(pageName) is started
startReading(emitted, pageName) ==
  events' = emitted \o <<Emit("page-loading", pageName),
                         Emit("readPage", pageName)>>

\* the subscriber of the navigator calls loadPage(pageName): up to its first
\* await; pos is the position the subscriber was given
LoadPageCall(pageName, pos) ==
  /\ LoadSettled
  /\ loads < MaxLoads
  /\ loads' = loads + 1
  /\ LET previousPage == currentPage
         call == [NoLoad EXCEPT
                    !.page = pageName,
                    !.prev = previousPage,
                    !.different = loadingDifferentPage(pageName, currentPage),
                    !.collabBefore = collab,
                    !.pos = pos,
                    !.nav = "pending"]
     IN  IF previousPage # NoPage
           THEN /\ closePrevious(previousPage)
                /\ IF previousPage # pageName
                     THEN /\ save(TRUE)
                          /\ load' = [call EXCEPT !.pc = "awaitSave",
                                                  !.saveId = nextTimer]
                          /\ events' = <<Emit("saveState", previousPage),
                                         Emit("unwatchPage", previousPage),
                                         Emit("save", previousPage)>>
                     ELSE /\ load' = [call EXCEPT !.pc = "reading"]
                          /\ startReading(<<Emit("saveState", previousPage),
                                            Emit("unwatchPage", previousPage)>>,
                                          pageName)
                          /\ UNCHANGED <<saveTimeout, timers, nextTimer, promises>>
           ELSE /\ load' = [call EXCEPT !.pc = "reading"]
                /\ startReading(<<>>, pageName)
                /\ UNCHANGED <<openPages, pageStates, watched, saveTimeout,
                               timers, nextTimer, promises>>
  /\ UNCHANGED <<collab, docPage, loadedText, docMeta, cursor, sessions,
                 collabSession>>
  /\ UNCHANGED <<currentPage, unsavedChanges, forcedROMode, writes, burstNo,
                 writeLog, errorNotes>>
  /\ UNCHANGED <<plugVars, dispVars, envVars, nsVars, ctxVars>>

\* loadPage that does not wait for the save of the previous page
SaveAwaitedNot(id) == TRUE

\* await this.save(true) lets loadPage go on
SaveAwaited(id) == promises[id] = "resolved"

\* the save of the previous page has resolved: collab stop, 'page-loading', readPage
LoadPageSaved ==
  /\ load.pc = "awaitSave"
  /\ SaveAwaited(load.saveId)
  /\ collab' = FALSE
  /\ sessions' = stopSession(sessions, collabSession)
  /\ collabSession' = 0
  /\ load' = [load EXCEPT !.pc = "reading"]
  /\ startReading(IF collab
                    THEN events \o <<Emit("collabStop", load.prev)>>
                    ELSE events,
                  load.page)
  /\ UNCHANGED <<openPages, watched, docPage, loadedText, docMeta, loads,
                 cursor, pageStates>>
  /\ UNCHANGED <<currentPage, saveVars, plugVars, dispVars, envVars, nsVars, ctxVars>>

\* a rejected save of the previous page that loadPage swallows
LoadPageSaveFailedGoesOn ==
  /\ load.pc = "awaitSave"
  /\ promises[load.saveId] = "rejected"
  /\ collab' = FALSE
  /\ sessions' = stopSession(sessions, collabSession)
  /\ collabSession' = 0
  /\ load' = [load EXCEPT !.pc = "reading"]
  /\ startReading(events, load.page)
  /\ UNCHANGED <<openPages, watched, docPage, loadedText, docMeta, loads,
                 cursor, pageStates>>
  /\ UNCHANGED <<currentPage, saveVars, plugVars, dispVars, envVars, nsVars, ctxVars>>

\* the save of the previous page has rejected: await throws, loadPage rejects
LoadPageSaveFailed ==
  /\ load.pc = "awaitSave"
  /\ promises[load.saveId] = "rejected"
  /\ load' = [load EXCEPT !.pc = "rejected"]
  /\ UNCHANGED <<openPages, watched, collab, docPage, loadedText, docMeta,
                 events, loads, cursor, pageStates, sessions, collabSession>>
  /\ UNCHANGED <<currentPage, saveVars, plugVars, dispVars, envVars, nsVars, ctxVars>>

\* pageNavigator's subscriber after its await of loadPage: a position sets
\* the selection, an anchor that is not found is reported, no position and
\* no restored state set the selection to 0
NavigationResumes ==
  /\ load.pc = "done" /\ load.nav = "pending"
  /\ IF posTruthy(load.pos)
       THEN IF load.pos.kind = "anchor" /\ ~load.pos.found
              THEN /\ load' = [load EXCEPT !.nav = "notfound"]
                   /\ UNCHANGED cursor
              ELSE /\ load' = [load EXCEPT !.nav = "done"]
                   /\ cursor' = load.pos.at
       ELSE /\ load' = [load EXCEPT !.nav = "done"]
            /\ cursor' = (IF load.restored THEN cursor ELSE 0)
  /\ UNCHANGED <<openPages, watched, collab, docPage, loadedText, docMeta,
                 events, loads, pageStates, sessions, collabSession>>
  /\ UNCHANGED <<currentPage, saveVars, plugVars, dispVars, envVars, nsVars,
                 ctxVars>>

\* the user puts the cursor somewhere else (a task of its own: not between
\* the return of loadPage and the subscriber that awaits it)
SelectionMoved(o) ==
  /\ ~(load.pc = "done" /\ load.nav = "pending")
  /\ cursor # o
  /\ cursor' = o
  /\ UNCHANGED <<load, openPages, watched, collab, docPage, loadedText, docMeta,
                 events, loads, pageStates, sessions, collabSession>>
  /\ UNCHANGED <<currentPage, saveVars, plugVars, dispVars, envVars, nsVars,
                 ctxVars>>

\* startCollab(...): stop the session there is, create a CollabState, then
\* rebuildEditorState(): saveState, setState, restoreState with a current page
startCollab ==
  /\ ~(load.pc = "done" /\ load.nav = "pending")
  /\ \E id \in SessionIds :
       /\ id \notin {x.id : x \in stopSession(sessions, collabSession)}
       /\ \A i \in SessionIds :
            i \notin {x.id : x \in stopSession(sessions, collabSession)}
              => id <= i
       /\ sessions' = stopSession(sessions, collabSession)
                         \cup {[id |-> id, born |-> loads]}
       /\ collabSession' = id
  /\ collab' = TRUE
  /\ keyBindings' = rebuildEditorState(currentPage, editorCommands, keyBindings)
  /\ IF currentPage # NoPage
       THEN /\ openPages' = openPages \cup {currentPage}
            /\ pageStates' = saveState(currentPage)
       ELSE UNCHANGED <<openPages, pageStates>>
  /\ UNCHANGED <<load, watched, docPage, loadedText, docMeta, events, loads,
                 cursor>>
  /\ UNCHANGED <<reloadVars, tableVars, runVars, currentPage, saveVars,
                 dispVars, envVars, nsVars, ctxVars>>

\* from the document to the dispatch of the event: createEditorState, setState,
\* restoreState, watchPage, 'page-loaded', eventHook.dispatchEvent
openDocument(doc, read) ==
  /\ keyBindings' = createEditorState(editorCommands)
  /\ docPage' = load.page
  /\ loadedText' = doc.text
  /\ watched' = watched \cup {load.page}
  /\ docMeta' = doc.meta
  /\ currentPage' = doc.meta.name
  /\ load' = [load EXCEPT !.pc = "dispatching", !.read = read,
                          !.restored = (load.page \in openPages)]
  /\ events' = events \o <<Emit("watchPage", load.page),
                           Emit("page-loaded", doc.meta.name),
                           Emit(LoadEvent(load.different), load.page)>>
  /\ cursor' = restoreState(load.page)
  /\ UNCHANGED <<openPages, collab, loads, pageStates, sessions, collabSession>>
  /\ UNCHANGED <<reloadVars, tableVars, runVars, saveVars, dispVars, envVars,
                 nsVars, ctxVars>>

\* space.readPage(pageName) resolves
ReadPageOk(doc) ==
  /\ load.pc = "reading"
  /\ doc \in ReadResults(load.page)
  /\ openDocument(doc, "ok")

\* a rejected space.readPage that is not caught
ReadPageThrows ==
  /\ load.pc = "reading"
  /\ load' = [load EXCEPT !.pc = "rejected", !.read = "failed"]
  /\ UNCHANGED <<openPages, watched, collab, docPage, loadedText, docMeta,
                 events, loads, cursor, pageStates, sessions, collabSession>>
  /\ UNCHANGED <<currentPage, saveVars, plugVars, dispVars, envVars, nsVars, ctxVars>>

\* space.readPage(pageName) rejects: the catch branch opens an empty document
ReadPageFails ==
  /\ load.pc = "reading"
  /\ openDocument(EmptyDoc(load.page), "failed")

\* eventHook.dispatchEvent has settled: loadPage returns stateRestored
LoadPageReturns ==
  /\ load.pc = "dispatching"
  /\ load' = [load EXCEPT !.pc = "done"]
  /\ UNCHANGED <<openPages, watched, collab, docPage, loadedText, docMeta,
                 events, loads, cursor, pageStates, sessions, collabSession>>
  /\ UNCHANGED <<currentPage, saveVars, plugVars, dispVars, envVars, nsVars, ctxVars>>

LoadInit ==
  /\ currentPage \in PagesOfSpace \cup {NoPage}
  /\ SaveIdle
  /\ PlugInit
  /\ DispIdle
  /\ EnvIdle
  /\ NsIdle
  /\ load = NoLoad
  /\ openPages = {}
  /\ watched = (IF currentPage = NoPage THEN {} ELSE {currentPage})
  /\ collab \in (IF currentPage = NoPage THEN {FALSE} ELSE BOOLEAN)
  /\ docPage = currentPage
  /\ loadedText = ""
  /\ docMeta = [NoMeta EXCEPT !.name = currentPage]
  /\ events = <<>>
  /\ loads = 0
  /\ cursor = 0
  /\ pageStates = [p \in {} |-> 0]
  /\ sessions = (IF collab THEN {[id |-> 1, born |-> 0]} ELSE {})
  /\ collabSession = (IF collab THEN 1 ELSE 0)
  /\ CtxIdle

LoadNext ==
  \/ \E p \in PagesOfSpace : LoadPageCall(p, NoPos)
  \/ NavigationResumes
  \/ LoadPageSaved
  \/ LoadPageSaveFailed
  \/ \E p \in PagesOfSpace : \E doc \in ReadResults(p) : ReadPageOk(doc)
  \/ ReadPageFails
  \/ LoadPageReturns
  \/ DocChanged
  \/ \E t \in timers : FireSaveTimer(t)
  \/ \E w \in writes : WriteOk(w)
  \/ \E w \in writes : WriteFail(w)

LoadSpec == LoadInit /\ [][LoadNext]_vars

-----------------------------------------------------------------------------
(* Reloading the page that changed on disk: the pageChanged handler of      *)
(* init() and Editor.reloadPage, with the save timers running.              *)

\* reloadPage(): clearTimeout(this.saveTimeout), then loadPage(currentPage) up
\* to its await of space.readPage; cleared and next are history: the timer
\* handed to clearTimeout and the id of the first timer armed after the call
reloadPage ==
  /\ LoadSettled
  /\ loads < MaxLoads
  /\ loads' = loads + 1
  /\ timers' = clearTimeout(timers, saveTimeout)
  /\ closePrevious(currentPage)
  /\ load' = [NoLoad EXCEPT !.pc = "reading", !.page = currentPage,
                            !.prev = currentPage,
                            !.different =
                               loadingDifferentPage(currentPage, currentPage),
                            !.collabBefore = collab, !.reload = TRUE,
                            !.cleared = saveTimeout, !.next = nextTimer]
  /\ startReading(<<Emit("saveState", currentPage),
                    Emit("unwatchPage", currentPage)>>, currentPage)
  /\ UNCHANGED <<collab, docPage, loadedText, docMeta, cursor, sessions,
                 collabSession>>
  /\ UNCHANGED <<saveTimeout, nextTimer, promises, currentPage, unsavedChanges,
                 forcedROMode, writes, burstNo, writeLog, errorNotes>>
  /\ UNCHANGED <<plugVars, dispVars, envVars, nsVars, ctxVars>>

\* space emits pageChanged(meta): the handler reloads when meta.name is the
\* current page and does nothing otherwise
PageChanged(name) ==
  /\ currentPage = name
  /\ reloadPage

\* an Editor with a page of the space open
ReloadPageInit ==
  /\ LoadInit
  /\ currentPage # NoPage
  /\ collab = FALSE

ReloadPageNext ==
  \/ \E name \in PagesOfSpace : PageChanged(name)
  \/ \E p \in PagesOfSpace : \E doc \in ReadResults(p) : ReadPageOk(doc)
  \/ ReadPageFails
  \/ LoadPageReturns
  \/ DocChanged
  \/ \E t \in timers : FireSaveTimer(t)
  \/ \E t \in timers : FireRetryTimer(t)
  \/ \E w \in writes : WriteOk(w)
  \/ \E w \in writes : WriteFail(w)
  \/ Tick

ReloadPageSpec == ReloadPageInit /\ [][ReloadPageNext]_vars

-----------------------------------------------------------------------------
(* Navigation with positions, the selection and the collab sessions: the    *)
(* subscriber of pageNavigator, restoreState / saveState and startCollab,   *)
(* with nothing to save.                                                    *)

NavNext ==
  \/ \E p \in PagesOfSpace, pos \in Positions : LoadPageCall(p, pos)
  \/ \E name \in PagesOfSpace : PageChanged(name)
  \/ LoadPageSaved
  \/ \E p \in PagesOfSpace : \E doc \in ReadResults(p) : ReadPageOk(doc)
  \/ ReadPageFails
  \/ LoadPageReturns
  \/ NavigationResumes
  \/ \E o \in Offsets : SelectionMoved(o)
  \/ startCollab
  \/ \E t \in timers : FireSaveTimer(t)

NavSpec == LoadInit /\ [][NavNext]_vars

-----------------------------------------------------------------------------
(* C1: debounced save.  In a burst of save() calls (no save timer fires    *)
(* between the calls) every call cancels the timer armed before it, so at  *)
(* most one timer of the burst is armed, it is the one stored by the last  *)
(* call, its delay is 1000 ms for save() and 0 for save(true), and the     *)
(* burst starts at most one space.writePage.                               *)
OneTimerPerBurst ==
  Cardinality({t \in timers : t.kind = "save" /\ t.burst = burstNo}) <= 1

C1_DebouncedSave ==
  /\ OneTimerPerBurst
  /\ \A t \in timers :
       t.kind = "save" => t.delay = (IF t.immediate THEN 0 ELSE 1000)
  /\ \A w1, w2 \in writeLog : w1.burst = w2.burst => w1 = w2

-----------------------------------------------------------------------------
(* C2: stale command entries are never invocable.  Once system.unloadAll() *)
(* has run, no run function of a command whose plug instance is no longer  *)
(* loaded is called, whether by a key binding of the editor state, by the  *)
(* command palette or by runCommandByName.                                 *)
C2_NoStaleCommandRun == ~staleRun

(* C3: a per-plug load failure is contained.  When a run of reloadPlugs()  *)
(* in which the load of a plug failed has ended and its async functions    *)
(* have ended, every plug whose load did not fail is loaded, the editor    *)
(* state was rebuilt in that run and 'plugs:loaded' was dispatched in it.  *)
C3_LoadFailureContained ==
  ( /\ rpc = "idle" /\ gen > 0
    /\ \E t \in tasks : t.gen = gen /\ t.st = "failed"
    /\ \A t \in tasks : t.st \in {"loaded", "failed"} )
  => /\ \A t \in tasks :
          t.st = "loaded" =>
            \E i \in 1..Len(loadedPlugs) :
              loadedPlugs[i].name = t.plug /\ loadedPlugs[i].gen = t.gen
     /\ rebuiltGen = gen
     /\ dispatchedGen = gen

(* C5: key binding conflicts are resolved by priority.  When a key is      *)
(* pressed and every loaded command that declares the key is bound in the  *)
(* editor state, the command that runs has the highest priority among the  *)
(* loaded commands that declare the key, and among those of that priority  *)
(* it is the one loaded first.                                             *)
LoadIndex(p) == CHOOSE i \in 1..Len(loadedPlugs) : loadedPlugs[i].name = p

FirstLoaded(r) ==
  \A c \in Range(editorCommands) :
    (c.key = r.key /\ c.priority = r.priority)
      => LoadIndex(r.plug) <= LoadIndex(c.plug)

C6_ReloadRebinds ==
  (rpc = "idle" /\ runOutcome = "completed")
  => \A i \in 1..Len(loadedPlugs) :
       LET lp == loadedPlugs[i]
           old == prevKeys[lp.name]
       IN  (old \in Keys /\ lp.man.key \in Keys /\ old # lp.man.key)
           => /\ \E b \in Range(keyBindings) :
                   /\ b.key = lp.man.key
                   /\ b.name = CmdName(lp.name)
                   /\ b.gen = lp.gen
              /\ ~ \E b \in Range(keyBindings) :
                     b.key = old /\ b.name = CmdName(lp.name)

C9_RunCommandByName ==
  lastByName.result # "none"
  => LET hit == {c \in Range(editorCommands) : c.name = lastByName.name}
     IN  IF hit # {}
           THEN /\ lastByName.result = "ran"
                /\ Len(lastByName.ran) = 1
                /\ \E c \in hit : /\ c.name = lastByName.ran[1].name
                                  /\ c.gen = lastByName.ran[1].gen
           ELSE /\ lastByName.result = "Command not found"
                /\ lastByName.ran = <<>>

\* a name that no loaded plug registers was asked for, with a plug loaded
C9_Witness ==
  /\ lastByName.result = "Command not found"
  /\ lastByName.name \in CmdNames
  /\ Len(editorCommands) = 1

(* C4: single-answer completion.  completer() returns the one truthy       *)
(* result among the results of the 'page:complete' dispatch when there is  *)
(* exactly one, null when there is none, and null with an error logged     *)
(* (nothing thrown) when there are two or more, wherever they stand in the *)
(* result sequence.                                                        *)
TruthyAt(results) == {i \in 1..Len(results) : Truthy(results[i])}

C4_SingleAnswerCompletion ==
  completerRet.done
  => /\ dEvent = "page:complete"
     /\ Cardinality(TruthyAt(dReturned)) = 1
          => /\ \E i \in TruthyAt(dReturned) : completerRet.ret = dReturned[i]
             /\ ~completerRet.logged
     /\ Cardinality(TruthyAt(dReturned)) = 0
          => completerRet.ret = Null /\ ~completerRet.logged
     /\ Cardinality(TruthyAt(dReturned)) >= 2
          => completerRet.ret = Null /\ completerRet.logged

\* the first and the last subscriber both answered, one between them failed
C4_Witness ==
  /\ completerRet.done /\ completerRet.logged /\ completerRet.ret = Null
  /\ dPlan[1] = "result" /\ dPlan[2] = "throws" /\ dPlan[3] = "null"
  /\ dPlan[4] = "result"
  /\ Len(dReturned) = 3

(* C10: event dispatch fault isolation.  Subscribers are invoked in        *)
(* registration order; a dispatch over k subscribers of which exactly one  *)
(* fails invokes all k, logs the failure, and resolves with the k-1        *)
(* results of the others in registration order.                            *)
Failing == {i \in 1..Len(dPlan) : dPlan[i] = "throws"}

C10_DispatchFaultIsolation ==
  /\ \A i \in 1..Len(dInvoked) : dInvoked[i] = EventSubscribers(dEvent)[i]
  /\ (dPhase = "resolved" /\ Cardinality(Failing) = 1)
     => LET subs == EventSubscribers(dEvent)
            f == CHOOSE i \in Failing : TRUE
            at(i) == IF i < f THEN i ELSE i + 1
        IN  /\ dInvoked = subs
            /\ dLogged = <<subs[f]>>
            /\ Len(dReturned) = Len(subs) - 1
            /\ \A i \in 1..Len(dReturned) :
                 dReturned[i] = [from |-> subs[at(i)], val |-> dPlan[at(i)]]

\* indexLinks failed, the four other subscribers of 'page:index' gave results
C10_Witness ==
  /\ dPhase = "resolved" /\ dEvent = "page:index"
  /\ Failing = {1}
  /\ Len(dReturned) = 4 /\ dReturned[1].from = "indexItem"
  /\ Len(dInvoked) = 5

(* C11: no leaked state.  When system.unloadAll() has completed and no     *)
(* plug was loaded since, the subscription table, the command table, the   *)
(* slash command table and the commands of the view state are empty, also  *)
(* when nothing was loaded before; and at every moment each entry of these *)
(* tables is owned by a plug that is loaded.                               *)
C11_NoLeakedState ==
  /\ rpc = "unloaded"
       => /\ loadedPlugs = <<>> /\ subscriptions = <<>>
          /\ editorCommands = <<>> /\ slashCommands = <<>> /\ commands = <<>>
  /\ \A e \in Range(subscriptions) \cup Range(editorCommands)
                \cup Range(slashCommands) \cup Range(commands) : ~Stale(e)

\* unloadAll() of the second run has completed, both plugs had been loaded
C11_Witness ==
  /\ rpc = "unloaded" /\ gen = 2
  /\ \A p \in Plugs : prevKeys[p] # "none"
  /\ subscriptions = <<>> /\ slashCommands = <<>>

(* C12: the environment boundary.  In the Editor's System, created for     *)
(* the environment "client", nothing declared env: server is ever run, and *)
(* a syscall declared for the server that is invoked ends with             *)
(* EnvironmentMismatch without its implementation having run.              *)
C12_EnvironmentBoundary ==
  \A i \in 1..Len(invocations) :
    invocations[i].env = "server"
      => /\ invocations[i].st # "executed"
         /\ invocations[i].ranIn = "none"
         /\ invocations[i].st # "pending"
              => invocations[i].st = "EnvironmentMismatch"

\* the server syscall was refused and a function without env tag has run
C12_Witness ==
  \E i, j \in 1..Len(invocations) :
    /\ invocations[i].kind = "syscall" /\ invocations[i].env = "server"
    /\ invocations[i].st = "EnvironmentMismatch"
    /\ invocations[j].kind = "function" /\ invocations[j].st = "executed"
    /\ invocations[j].ranIn = "client"

(* C13: page namespace routing.  readFile of a name that is the search     *)
(* glyph, a space and at least one more character is served by             *)
(* readPageSearch, with the cloud glyph by readPageCloud, getFileMeta by   *)
(* getPageMetaSearch and getPageMetaCloud; the handler that serves a call  *)
(* declares the requested operation; a name that matches no pattern as a   *)
(* whole is served by no handler.                                          *)
GlyphName(g, name) ==
  /\ Len(name) >= 3 /\ name[1] = g /\ name[2] = " "
  /\ \A i \in 3..Len(name) : name[i] # "nl"

C14_ForceImmediateSave ==
  [][ (\E t \in timers' : t.id = nextTimer /\ t.kind = "save" /\ t.immediate)
      => \A t \in timers' :
           t.kind = "save"
             => t.immediate /\ t.delay = 0 /\ t.id = saveTimeout' ]_vars

(* C15: the save guard.  When a save timer fires, space.writePage is       *)
(* started exactly if there is a current page, unsavedChanges is true and  *)
(* forcedROMode is false; otherwise nothing is written, the view state is  *)
(* unchanged and the promise of that save() call is resolved.              *)
C15_SaveGuard ==
  [][ \A t \in timers :
        (t.kind = "save" /\ t \notin timers' /\ burstNo' = burstNo + 1)
        => IF currentPage # NoPage /\ unsavedChanges /\ ~forcedROMode
             THEN /\ writes' = writes \cup {[timer |-> t.id, burst |-> t.burst]}
                  /\ promises'[t.id] = "pending"
             ELSE /\ writes' = writes /\ writeLog' = writeLog
                  /\ unsavedChanges' = unsavedChanges
                  /\ forcedROMode' = forcedROMode
                  /\ currentPage' = currentPage
                  /\ promises'[t.id] = "resolved" ]_vars

\* a save timer fired in read-only mode with unsaved changes: promise
\* resolved, nothing written
C15_Witness ==
  /\ forcedROMode /\ unsavedChanges /\ currentPage # NoPage
  /\ writeLog = {} /\ writes = {}
  /\ \E i \in 1..MaxTimers : promises[i] = "resolved"

(* C16: save failure and retry.  When space.writePage rejects, the promise *)
(* of that save() call is rejected, an error notification is flashed,      *)
(* unsavedChanges is left as it was, and a timer of 10 seconds that calls  *)
(* save() is armed and stored in saveTimeout; and once such a retry timer  *)
(* is stored, the page is eventually written, unless read-only mode is     *)
(* forced (the number of timers followed is bounded).                      *)
RetryStored ==
  \E t \in timers : t.kind = "retry" /\ t.id = saveTimeout

C17_NavigationSavesFirst ==
  /\ [](  (load.pc = "reading" /\ load.prev # NoPage /\ load.prev # load.page)
          => /\ load.prev \in openPages
             /\ load.prev \notin watched
             /\ load.saveId # 0
             /\ promises[load.saveId] = "resolved"
             /\ docPage = load.prev )
  /\ [][ (loads' # loads /\ load'.page = currentPage)
         => /\ timers' = timers
            /\ saveTimeout' = saveTimeout
            /\ nextTimer' = nextTimer ]_vars

\* loadPage("b") reads b after it left page a with an edit saved
C17_Witness ==
  /\ load.pc = "reading" /\ load.prev = "a" /\ load.page = "b"
  /\ writeLog # {}
  /\ promises[load.saveId] = "resolved"

\* what the call would have emitted had it gone past its await of save(true)
AfterSave == {"collabStop", "page-loading", "readPage", "watchPage",
              "page-loaded", "editor:pageLoaded", "editor:pageReloaded"}

(* C18: a failed save stops the navigation.  When the save(true) that      *)
(* loadPage awaits rejects, the call rejects and goes no further: the      *)
(* current page and the document of the view are still the previous page,  *)
(* the call has emitted no 'page-loading', readPage, 'page-loaded' or      *)
(* editor:pageLoaded, and the collab session is as it was at the call.     *)
C18_FailedSaveKeepsPage ==
  /\ (load.saveId # 0 /\ promises[load.saveId] = "rejected"
        /\ load.pc # "awaitSave")
     => load.pc = "rejected"
  /\ load.pc = "rejected"
     => /\ load.saveId # 0 /\ promises[load.saveId] = "rejected"
        /\ currentPage = load.prev
        /\ docPage = load.prev
        /\ \A i \in 1..Len(events) : events[i].what \notin AfterSave
        /\ load.collabBefore => collab

\* loadPage("b") from page a with a collab session has rejected
C18_Witness ==
  /\ load.pc = "rejected" /\ load.prev = "a" /\ load.page = "b"
  /\ collab /\ errorNotes > 0

LoadEventsAt == {i \in 1..Len(events) :
                   events[i].what \in {"editor:pageLoaded", "editor:pageReloaded"}}

(* C20: one event per load.  A loadPage(p) that has completed has          *)
(* dispatched exactly one of 'editor:pageLoaded' and 'editor:pageReloaded',*)
(* with p: 'editor:pageLoaded' when p was not the current page when the    *)
(* call was made and 'editor:pageReloaded' when it was, and the event      *)
(* comes after the 'page-loaded' action of the call.                       *)
C20_OneLoadEvent ==
  load.pc = "done"
  => /\ Cardinality(LoadEventsAt) = 1
     /\ \A i \in LoadEventsAt :
          /\ events[i].page = load.page
          /\ events[i].what = (IF load.page # load.prev
                                 THEN "editor:pageLoaded"
                                 ELSE "editor:pageReloaded")
          /\ \E j \in 1..(i - 1) : events[j] = Emit("page-loaded", load.page)

\* page b was loaded from page a and then loaded again: the reload has completed
C20_Witness ==
  /\ load.pc = "done" /\ loads = 2
  /\ load.page = "b" /\ load.prev = "b"
  /\ "a" \in openPages

\* the command def of a name in the command table
DefOf(name) == CHOOSE d \in Range(editorCommands) : d.name = name

(* C21: the context filter of key-bound commands.  The key bindings are the *)
(* commands that declare a key.  A handler called for a key press returns   *)
(* true and runs its command when the command declares no contexts; when    *)
(* it declares contexts it does so only with an empty selection on a node   *)
(* that is one of them, and otherwise returns false and nothing is run.     *)
C21_ContextFilter ==
  /\ [](/\ \A b \in Range(keyBindings) : b.key # NoKey
        /\ \A d \in Range(editorCommands) :
             d.key # NoKey => d \in Range(keyBindings)
        /\ \A i \in 1..Len(keyResult.called) :
             LET c == keyResult.called[i]
                 d == DefOf(c.name)
             IN  /\ d.key = keyResult.key
                 /\ ~d.contexts.declared => c.ret
                 /\ d.contexts.declared
                      => (c.ret => /\ keyResult.empty
                                   /\ keyResult.node \in d.contexts.names))
  /\ [][ keyResult' # keyResult
         => {r.name : r \in pendingRuns' \ pendingRuns}
              = {keyResult'.called[i].name : i \in
                   {j \in 1..Len(keyResult'.called) : keyResult'.called[j].ret}}
       ]_vars

\* a key press outside the declared contexts of the first binding: its
\* handler returned false and the next binding of the key ran
C21_Witness ==
  /\ Len(keyResult.called) = 2
  /\ ~keyResult.called[1].ret /\ keyResult.called[2].ret
  /\ DefOf(keyResult.called[1].name).contexts.names = {"NakedURL"}
  /\ \E r \in pendingRuns : r.name = keyResult.called[2].name

\* a reload is made for the current page only and makes no save() call
ReloadsCurrentPageUnsaved ==
  [][ (loads' # loads /\ load'.reload)
      => /\ load'.page = currentPage
         /\ nextTimer' = nextTimer
         /\ writes' = writes ]_vars

\* the timer that reloadPage handed to clearTimeout starts no write
ClearedTimerWritesNothing ==
  [][ load.reload
      => \A w \in writes' \ writes : w.timer # load.cleared ]_vars

\* when reloadPage has started, no save timer armed before it is left armed
NoSaveTimerSurvivesReload ==
  [][ (loads' # loads /\ load'.reload)
      => \A t \in timers' : t.kind # "save" ]_vars

(* C22: reload on external change.  A pageChanged notification reloads     *)
(* only the current page; reloadPage makes no save, cancels the pending    *)
(* save timer, and the cancelled timer starts no write afterwards.         *)
C22_ReloadOnExternalChange ==
  /\ ReloadsCurrentPageUnsaved
  /\ ClearedTimerWritesNothing
  /\ NoSaveTimerSurvivesReload

\* loadPage returns true exactly when a state of the page is recorded when
\* it restores, and then the recorded selection is restored, otherwise 0
RestoredIffRecorded ==
  [][ (load.pc = "reading" /\ load'.pc = "dispatching")
      => /\ load'.restored <=> (load.page \in openPages)
         /\ cursor' = (IF load.page \in openPages
                         THEN pageStates[load.page] ELSE 0) ]_vars

\* the state of the current page is recorded whenever loadPage or
\* rebuildEditorState leaves it, and no recorded state is dropped
RecordedOnLeaving ==
  [][ /\ openPages \subseteq openPages'
      /\ ((loads' # loads \/ collabSession' \notin {collabSession, 0})
            /\ currentPage # NoPage)
         => /\ currentPage \in openPages'
            /\ pageStates'[currentPage] = cursor ]_vars

\* when the subscriber of the navigator is done, a position that was given
\* is the selection; with none the selection that loadPage restored stays,
\* and it is 0 when nothing was restored
PositionWins ==
  [][ (load.nav = "pending" /\ load'.nav = "done")
      => cursor' = (IF load.pos.kind # "none" THEN load.pos.at
                    ELSE IF load.restored THEN cursor ELSE 0) ]_vars

(* C23: cursor restoration.  loadPage(p) returns true exactly when a state  *)
(* of p was recorded earlier, the state of a page being recorded whenever   *)
(* loadPage or rebuildEditorState leaves it; after a navigation the         *)
(* selection is the given position, else the recorded state, else 0.        *)
C23_CursorRestoration ==
  /\ RestoredIffRecorded
  /\ RecordedOnLeaving
  /\ PositionWins

\* collabState refers to the only session that runs, if one runs at all
OneSessionAtMost ==
  /\ Cardinality(sessions) <= 1
  /\ collabSession = 0 => sessions = {}
  /\ collabSession # 0 => \A x \in sessions : x.id = collabSession
  /\ collab <=> collabSession # 0

\* loadPage of another page than the previous one, once the save of the
\* previous page is behind it, has stopped the session and forgotten it
MoveStopsSession ==
  [][ (load.pc = "awaitSave" /\ load'.pc = "reading")
      => /\ load.page # load.prev
         /\ sessions' = {}
         /\ collabSession' = 0 ]_vars

\* the steps of a loadPage of the page that is open leave the session alone
SamePageKeepsSession ==
  [][ (load' # load /\ load'.page = load'.prev)
      => /\ sessions' = sessions
         /\ collabSession' = collabSession ]_vars

C24_KeptWitness ==
  /\ load.pc = "done" /\ load.reload
  /\ collabSession # 0
  /\ \E x \in sessions : x.id = collabSession /\ x.born < loads
=============================================================================
